---- MODULE Spec2Model ----
(***************************************************************************)
(* Model of the Konecta item registry (src/main.py): an in-memory list of *)
(* items, an id counter, and the FastAPI handlers that read and write     *)
(* them.                                                                  *)
(*                                                                        *)
(* Data representation                                                    *)
(*   - a string is [c, n]: the character c repeated n times; only its     *)
(*     length and its identity matter to the handlers;                    *)
(*   - an Optional value is <<>> (None / not sent) or <<v>>;              *)
(*   - a price is an integer number of cents (1200.50 is 120050);         *)
(*   - datetime.now() is an input drawn from Times (a wall clock).        *)
(***************************************************************************)
EXTENDS Integers, Sequences, FiniteSets, TLC

VARIABLES items_db, next_id, last, assigned, deleted, pc, current, req, gen

vars == <<items_db, next_id, last, assigned, deleted, pc, current, req, gen>>

regVars == <<items_db, next_id>>
histVars == <<last, assigned, deleted>>
loopVars == <<pc, current, req, gen>>

----------------------------------------------------------------------------
(* Bounds *)

MaxNextId == 4
MaxLifecycleId == 6
NTasks == 2

(* Field limits of ItemBase *)
MaxNombreLen == 100
MaxDescripcionLen == 500
MinNombreLen == 1

(* Readings of the wall clock. The handlers only copy a reading, so what  *)
(* matters is whether two readings are equal: 0 is the reading at import, *)
(* the requests read a later one.                                         *)
Times == {0, 1}
RequestTimes == Times \ {0}
Ids == 1..MaxNextId
LifecycleIds == 1..MaxLifecycleId
Tasks == 1..NTasks
LoopIds == 1..(2 + NTasks)

----------------------------------------------------------------------------
(* Values *)

Str(c, n) == [c |-> c, n |-> n]
StrLen(s) == s.n

None == <<>>
Some(v) == <<v>>

SeedItems(t1, t2) ==
    << [id |-> 1, nombre |-> Str("L", 9), descripcion |-> Some(Str("l", 31)),
        precio |-> 120050, disponible |-> TRUE, fecha_creacion |-> t1],
       [id |-> 2, nombre |-> Str("M", 14), descripcion |-> Some(Str("m", 28)),
        precio |-> 4599, disponible |-> TRUE, fecha_creacion |-> t2] >>

(* Request bodies sent to POST and PUT: two that pass validation (one     *)
(* leaving out both optional fields) and one for each way of failing it.  *)
RawPayloads ==
    { [nombre |-> Str("a", 1), descripcion |-> None,
       precio |-> 5000, disponible |-> None],
      [nombre |-> Str("b", 100), descripcion |-> Some(Str("d", 500)),
       precio |-> 200000, disponible |-> Some(FALSE)],
      [nombre |-> Str("a", 0), descripcion |-> None,
       precio |-> 5000, disponible |-> None],
      [nombre |-> Str("a", 101), descripcion |-> None,
       precio |-> 5000, disponible |-> Some(TRUE)],
      [nombre |-> Str("a", 1), descripcion |-> Some(Str("d", 501)),
       precio |-> 5000, disponible |-> None],
      [nombre |-> Str("a", 1), descripcion |-> None,
       precio |-> 0, disponible |-> Some(FALSE)],
      [nombre |-> Str("a", 1), descripcion |-> None,
       precio |-> -500, disponible |-> None] }

(* The bodies used where only the ids matter: one valid, one rejected. *)
LifecyclePayloads ==
    { [nombre |-> Str("a", 1), descripcion |-> None,
       precio |-> 5000, disponible |-> None],
      [nombre |-> Str("a", 1), descripcion |-> None,
       precio |-> 0, disponible |-> Some(FALSE)] }

(* Query parameters of GET /api/items *)
Filters ==
    [disponible : {None, Some(TRUE), Some(FALSE)},
     precio_min : {None, Some(5000)},
     precio_max : {None, Some(120050)}]

----------------------------------------------------------------------------
(* Validation (pydantic) *)

(* Variant: the price check written as >= 0. *)
ValidItemBaseLax(raw) ==
    /\ StrLen(raw.nombre) >= MinNombreLen
    /\ StrLen(raw.nombre) <= MaxNombreLen
    /\ (raw.descripcion = None \/ StrLen(raw.descripcion[1]) <= MaxDescripcionLen)
    /\ raw.precio >= 0

ValidItemBase(raw) ==
    /\ StrLen(raw.nombre) >= MinNombreLen
    /\ StrLen(raw.nombre) <= MaxNombreLen
    /\ (raw.descripcion = None \/ StrLen(raw.descripcion[1]) <= MaxDescripcionLen)
    /\ raw.precio > 0

(* Variant: a body without `disponible` is read as not available. *)
ItemCreateNoDefault(raw) ==
    [nombre |-> raw.nombre,
     descripcion |-> raw.descripcion,
     precio |-> raw.precio,
     disponible |-> IF raw.disponible = None THEN FALSE ELSE raw.disponible[1]]

ItemCreate(raw) ==
    [nombre |-> raw.nombre,
     descripcion |-> raw.descripcion,
     precio |-> raw.precio,
     disponible |-> IF raw.disponible = None THEN TRUE ELSE raw.disponible[1]]

Item(id, nombre, descripcion, precio, disponible, fecha_creacion) ==
    [id |-> id, nombre |-> nombre, descripcion |-> descripcion,
     precio |-> precio, disponible |-> disponible,
     fecha_creacion |-> fecha_creacion]

----------------------------------------------------------------------------
(* Helpers over the list *)

(* next((index for index, item in enumerate(db) if item.id == id), None); *)
(* 0 stands for None.                                                     *)
FindIndex(db, id) ==
    IF \E i \in 1..Len(db) : db[i].id = id
    THEN CHOOSE i \in 1..Len(db) :
            /\ db[i].id = id
            /\ \A j \in 1..(i - 1) : db[j].id # id
    ELSE 0

(* Variant: list.pop() without the index. *)
PopLast(db, i) == [k \in 1..(Len(db) - 1) |-> db[k]]

(* list.pop(index) *)
Pop(db, i) == [k \in 1..(Len(db) - 1) |-> IF k < i THEN db[k] ELSE db[k + 1]]

NoRaw == <<>>
NoArg == <<>>

Result(op, id, raw, arg, status, ret) ==
    [op |-> op, id |-> id, raw |-> raw, arg |-> arg, status |-> status, ret |-> ret]


(* A request and the local variables of its handler *)
Request(op, item_id, raw, disponible) ==
    [op |-> op, item_id |-> item_id, item |-> raw, disponible |-> disponible,
     item_index |-> 0, obj |-> <<>>, ref |-> <<>>, status |-> "none"]

NoRequest == Request("none", 0, <<>>, <<>>)

----------------------------------------------------------------------------
(* State after import of the module *)

Init ==
    /\ items_db = SeedItems(0, 0)
    /\ next_id = 3
    /\ last = Result("none", 0, NoRaw, NoArg, "none", <<>>)
    /\ assigned = {1, 2}
    /\ deleted = {}
    /\ pc = [t \in Tasks |-> "idle"]
    /\ current = 0
    /\ req = [t \in Tasks |-> NoRequest]
    /\ gen = [i \in LoopIds |-> 0]

----------------------------------------------------------------------------
(* Handlers, one request at a time *)

(* GET /api/items/{item_id} *)
obtener_item(item_id) ==
    LET i == FindIndex(items_db, item_id) IN
    /\ last' = IF i = 0
               THEN Result("get", item_id, NoRaw, NoArg, "NotFound", <<>>)
               ELSE Result("get", item_id, NoRaw, NoArg, "ok", <<items_db[i]>>)
    /\ UNCHANGED <<items_db, next_id, assigned, deleted, loopVars>>

(* Variant: the id taken from the length of the list. *)
crear_item_reuse(raw, now) ==
    /\ IF ~ValidItemBase(raw)
       THEN /\ last' = Result("create", 0, Some(raw), NoArg, "ValidationError", <<>>)
            /\ UNCHANGED <<items_db, next_id, assigned, deleted>>
       ELSE LET item == ItemCreate(raw)
                nuevo_item == Item(Len(items_db) + 1, item.nombre, item.descripcion,
                                   item.precio, item.disponible, now)
            IN /\ items_db' = Append(items_db, nuevo_item)
               /\ next_id' = next_id + 1
               /\ assigned' = assigned \cup {nuevo_item.id}
               /\ last' = Result("create", nuevo_item.id, Some(raw), NoArg, "ok",
                                 <<nuevo_item>>)
               /\ UNCHANGED deleted
    /\ UNCHANGED loopVars

(* Variant: the counter advanced before the body is validated. *)
crear_item_consume(raw, now) ==
    /\ IF ~ValidItemBase(raw)
       THEN /\ last' = Result("create", 0, Some(raw), NoArg, "ValidationError", <<>>)
            /\ next_id' = next_id + 1
            /\ UNCHANGED <<items_db, assigned, deleted>>
       ELSE LET item == ItemCreate(raw)
                nuevo_item == Item(next_id, item.nombre, item.descripcion,
                                   item.precio, item.disponible, now)
            IN /\ items_db' = Append(items_db, nuevo_item)
               /\ next_id' = next_id + 1
               /\ assigned' = assigned \cup {nuevo_item.id}
               /\ last' = Result("create", nuevo_item.id, Some(raw), NoArg, "ok",
                                 <<nuevo_item>>)
               /\ UNCHANGED deleted
    /\ UNCHANGED loopVars

(* POST /api/items *)
crear_item(raw, now) ==
    /\ IF ~ValidItemBase(raw)
       THEN /\ last' = Result("create", 0, Some(raw), NoArg, "ValidationError", <<>>)
            /\ UNCHANGED <<items_db, next_id, assigned, deleted>>
       ELSE LET item == ItemCreate(raw)
                nuevo_item == Item(next_id, item.nombre, item.descripcion,
                                   item.precio, item.disponible, now)
            IN /\ items_db' = Append(items_db, nuevo_item)
               /\ next_id' = next_id + 1
               /\ assigned' = assigned \cup {nuevo_item.id}
               /\ last' = Result("create", nuevo_item.id, Some(raw), NoArg, "ok",
                                 <<nuevo_item>>)
               /\ UNCHANGED deleted
    /\ UNCHANGED loopVars

(* Variant: a merge, the stored description kept when the body has none. *)
actualizar_item_merge(item_id, raw) ==
    IF ~ValidItemBase(raw)
    THEN /\ last' = Result("update", item_id, Some(raw), NoArg, "ValidationError", <<>>)
         /\ UNCHANGED <<items_db, next_id, assigned, deleted, loopVars>>
    ELSE LET item_actualizado == ItemCreate(raw)
             item_index == FindIndex(items_db, item_id)
         IN IF item_index = 0
            THEN /\ last' = Result("update", item_id, Some(raw), NoArg, "NotFound", <<>>)
                 /\ UNCHANGED <<items_db, next_id, assigned, deleted, loopVars>>
            ELSE LET item_modificado ==
                         Item(item_id, item_actualizado.nombre,
                              IF item_actualizado.descripcion = None
                              THEN items_db[item_index].descripcion
                              ELSE item_actualizado.descripcion,
                              item_actualizado.precio,
                              item_actualizado.disponible,
                              items_db[item_index].fecha_creacion)
                 IN /\ items_db' = [items_db EXCEPT ![item_index] = item_modificado]
                    /\ last' = Result("update", item_id, Some(raw), NoArg, "ok",
                                      <<item_modificado>>)
                    /\ UNCHANGED <<next_id, assigned, deleted, loopVars>>

(* PUT /api/items/{item_id} *)
actualizar_item(item_id, raw) ==
    IF ~ValidItemBase(raw)
    THEN /\ last' = Result("update", item_id, Some(raw), NoArg, "ValidationError", <<>>)
         /\ UNCHANGED <<items_db, next_id, assigned, deleted, loopVars>>
    ELSE LET item_actualizado == ItemCreate(raw)
             item_index == FindIndex(items_db, item_id)
         IN IF item_index = 0
            THEN /\ last' = Result("update", item_id, Some(raw), NoArg, "NotFound", <<>>)
                 /\ UNCHANGED <<items_db, next_id, assigned, deleted, loopVars>>
            ELSE LET item_modificado ==
                         Item(item_id, item_actualizado.nombre,
                              item_actualizado.descripcion, item_actualizado.precio,
                              item_actualizado.disponible,
                              items_db[item_index].fecha_creacion)
                 IN /\ items_db' = [items_db EXCEPT ![item_index] = item_modificado]
                    /\ last' = Result("update", item_id, Some(raw), NoArg, "ok",
                                      <<item_modificado>>)
                    /\ UNCHANGED <<next_id, assigned, deleted, loopVars>>

(* Variant: the flag toggled instead of set. *)
actualizar_disponibilidad_toggle(item_id, disponible) ==
    LET i == FindIndex(items_db, item_id) IN
    IF i = 0
    THEN /\ last' = Result("patch", item_id, NoRaw, Some(disponible), "NotFound", <<>>)
         /\ UNCHANGED <<items_db, next_id, assigned, deleted, loopVars>>
    ELSE /\ items_db' = [items_db EXCEPT ![i].disponible = ~items_db[i].disponible]
         /\ last' = Result("patch", item_id, NoRaw, Some(disponible), "ok",
                           <<items_db'[i]>>)
         /\ UNCHANGED <<next_id, assigned, deleted, loopVars>>

(* PATCH /api/items/{item_id}/disponibilidad *)
actualizar_disponibilidad(item_id, disponible) ==
    LET i == FindIndex(items_db, item_id) IN
    IF i = 0
    THEN /\ last' = Result("patch", item_id, NoRaw, Some(disponible), "NotFound", <<>>)
         /\ UNCHANGED <<items_db, next_id, assigned, deleted, loopVars>>
    ELSE /\ items_db' = [items_db EXCEPT ![i].disponible = disponible]
         /\ last' = Result("patch", item_id, NoRaw, Some(disponible), "ok",
                           <<items_db'[i]>>)
         /\ UNCHANGED <<next_id, assigned, deleted, loopVars>>

(* DELETE /api/items/{item_id} *)
eliminar_item(item_id) ==
    LET item_index == FindIndex(items_db, item_id) IN
    IF item_index = 0
    THEN /\ last' = Result("delete", item_id, NoRaw, NoArg, "NotFound", <<>>)
         /\ UNCHANGED <<items_db, next_id, assigned, deleted, loopVars>>
    ELSE /\ items_db' = Pop(items_db, item_index)
         /\ deleted' = deleted \cup {item_id}
         /\ last' = Result("delete", item_id, NoRaw, NoArg, "ok", <<>>)
         /\ UNCHANGED <<next_id, assigned, loopVars>>

(* Variant: the lower price bound exclusive. *)
FilterItemsStrict(db, f) ==
    LET items0 == db
        items1 == IF f.disponible # None
                  THEN SelectSeq(items0, LAMBDA item : item.disponible = f.disponible[1])
                  ELSE items0
        items2 == IF f.precio_min # None
                  THEN SelectSeq(items1, LAMBDA item : item.precio > f.precio_min[1])
                  ELSE items1
        items3 == IF f.precio_max # None
                  THEN SelectSeq(items2, LAMBDA item : item.precio <= f.precio_max[1])
                  ELSE items2
    IN items3

(* GET /api/items *)
FilterItems(db, f) ==
    LET items0 == db
        items1 == IF f.disponible # None
                  THEN SelectSeq(items0, LAMBDA item : item.disponible = f.disponible[1])
                  ELSE items0
        items2 == IF f.precio_min # None
                  THEN SelectSeq(items1, LAMBDA item : item.precio >= f.precio_min[1])
                  ELSE items1
        items3 == IF f.precio_max # None
                  THEN SelectSeq(items2, LAMBDA item : item.precio <= f.precio_max[1])
                  ELSE items2
    IN items3

obtener_items(f) ==
    /\ last' = Result("list", 0, NoRaw, Some(f), "ok", FilterItems(items_db, f))
    /\ UNCHANGED <<items_db, next_id, assigned, deleted, loopVars>>

(* GET /api/stats *)
RECURSIVE SumSeq(_)
SumSeq(s) == IF s = <<>> THEN 0 ELSE Head(s) + SumSeq(Tail(s))

RECURSIVE MinSeq(_)
MinSeq(s) ==
    IF Len(s) = 1 THEN s[1]
    ELSE LET m == MinSeq(Tail(s)) IN IF m < Head(s) THEN m ELSE Head(s)

RECURSIVE MaxSeq(_)
MaxSeq(s) ==
    IF Len(s) = 1 THEN s[1]
    ELSE LET m == MaxSeq(Tail(s)) IN IF m > Head(s) THEN m ELSE Head(s)

(* round(total / n, 2) on a price in cents: the nearest whole cent. A tie *)
(* is rounded up, as the float 623.245 of the two seed prices is.         *)
Round2(total, n) == (2 * total + n) \div (2 * n)

(* Variant: the minimum computed with max(). *)
EstadisticasSwap(db) ==
    LET total_items == Len(db)
        items_disponibles == Len(SelectSeq(db, LAMBDA item : item.disponible))
        items_no_disponibles == total_items - items_disponibles
        precios == [k \in 1..Len(db) |-> db[k].precio]
    IN [total_items |-> total_items,
        items_disponibles |-> items_disponibles,
        items_no_disponibles |-> items_no_disponibles,
        precio_promedio |-> IF precios # <<>>
                            THEN Round2(SumSeq(precios), Len(precios)) ELSE 0,
        precio_minimo |-> IF precios # <<>> THEN MaxSeq(precios) ELSE 0,
        precio_maximo |-> IF precios # <<>> THEN MaxSeq(precios) ELSE 0]

Estadisticas(db) ==
    LET total_items == Len(db)
        items_disponibles == Len(SelectSeq(db, LAMBDA item : item.disponible))
        items_no_disponibles == total_items - items_disponibles
        precios == [k \in 1..Len(db) |-> db[k].precio]
    IN [total_items |-> total_items,
        items_disponibles |-> items_disponibles,
        items_no_disponibles |-> items_no_disponibles,
        precio_promedio |-> IF precios # <<>>
                            THEN Round2(SumSeq(precios), Len(precios)) ELSE 0,
        precio_minimo |-> IF precios # <<>> THEN MinSeq(precios) ELSE 0,
        precio_maximo |-> IF precios # <<>> THEN MaxSeq(precios) ELSE 0]

obtener_estadisticas ==
    /\ last' = Result("stats", 0, NoRaw, NoArg, "ok", <<Estadisticas(items_db)>>)
    /\ UNCHANGED <<items_db, next_id, assigned, deleted, loopVars>>

Next ==
    \/ \E f \in Filters : obtener_items(f)
    \/ \E id \in Ids : obtener_item(id)
    \/ \E raw \in RawPayloads : \E now \in RequestTimes :
          next_id < MaxNextId /\ crear_item(raw, now)
    \/ \E id \in Ids : \E raw \in RawPayloads : actualizar_item(id, raw)
    \/ \E id \in Ids : \E d \in BOOLEAN : actualizar_disponibilidad(id, d)
    \/ \E id \in Ids : eliminar_item(id)
    \/ obtener_estadisticas

Spec == Init /\ [][Next]_vars

(* The same handlers with more creates and fewer bodies: the life of ids. *)
NextIds ==
    \/ \E id \in LifecycleIds : obtener_item(id)
    \/ \E raw \in LifecyclePayloads : \E now \in RequestTimes :
          next_id < MaxLifecycleId /\ crear_item(raw, now)
    \/ \E id \in LifecycleIds : \E raw \in LifecyclePayloads : actualizar_item(id, raw)
    \/ \E id \in LifecycleIds : \E d \in BOOLEAN : actualizar_disponibilidad(id, d)
    \/ \E id \in LifecycleIds : eliminar_item(id)

SpecIds == Init /\ [][NextIds]_vars

----------------------------------------------------------------------------
(* The handlers as coroutines on the event loop.                          *)
(*                                                                        *)
(* Every endpoint is an `async def` that FastAPI awaits on the server's   *)
(* event loop. A coroutine gives the loop up only at an await or when it  *)
(* returns or raises. pc[t] is the source line task t executes next,      *)
(* current is the task that holds the loop (0: none), req[t] holds the    *)
(* request and the handler's local variables. The body arrives validated. *)
(* gen[id] counts the Item objects that actualizar_item has put in place  *)
(* of the item with that id, so that <<id, gen[id]>> names an object.     *)

(* Variant: an await in front of each write. *)
AwaitLabelsWrites == {"crear_145", "actualizar_162", "patch_188", "eliminar_205"}

(* The labels in front of which a handler body awaits: there is none. *)
AwaitLabels == {}

EntryLabel(op) ==
    CASE op = "create" -> "crear_135"
      [] op = "update" -> "actualizar_154"
      [] op = "patch" -> "patch_180"
      [] op = "delete" -> "eliminar_197"

BodyLabels ==
    {"crear_135", "crear_144", "crear_145",
     "actualizar_154", "actualizar_162", "actualizar_171",
     "patch_180", "patch_188",
     "eliminar_197", "eliminar_205"}

ValidPayloads == {raw \in RawPayloads : ValidItemBase(raw)}

(* A request arrives and its coroutine is scheduled. *)
Receive(t) ==
    /\ pc[t] = "idle"
    /\ \E op \in {"create", "update", "patch", "delete"} :
       \E item_id \in LoopIds :
       \E raw \in ValidPayloads :
       \E d \in BOOLEAN :
          /\ op = "create" => item_id = 1 /\ d
          /\ op \in {"patch", "delete"} => raw = CHOOSE r \in ValidPayloads : TRUE
          /\ op \in {"update", "delete"} => d
          /\ req' = [req EXCEPT ![t] =
                        Request(op,
                                IF op = "create" THEN 0 ELSE item_id,
                                IF op \in {"create", "update"} THEN Some(ItemCreate(raw)) ELSE <<>>,
                                IF op = "patch" THEN Some(d) ELSE <<>>)]
    /\ pc' = [pc EXCEPT ![t] = "pending"]
    /\ UNCHANGED <<regVars, histVars, current, gen>>

(* The loop, when free, starts a scheduled coroutine. *)
Dispatch(t) ==
    /\ current = 0
    /\ pc[t] = "pending"
    /\ current' = t
    /\ pc' = [pc EXCEPT ![t] = EntryLabel(req[t].op)]
    /\ UNCHANGED <<regVars, histVars, req, gen>>

(* Task t may execute its next line: it holds the loop, or it is          *)
(* suspended at an await and the loop is free.                            *)
Runs(t) == current = t \/ (current = 0 /\ pc[t] \in AwaitLabels)

(* Who holds the loop once t has reached label. *)
Holder(t, label) == IF label = "done" \/ label \in AwaitLabels THEN 0 ELSE t

Goto(t, label) ==
    /\ pc' = [pc EXCEPT ![t] = label]
    /\ current' = Holder(t, label)

Finish(t, status) ==
    /\ req' = [req EXCEPT ![t].status = status]
    /\ Goto(t, "done")

(* crear_item, lines 135-142: nuevo_item = Item(id=next_id, ...) *)
crear_135(t) ==
    /\ pc[t] = "crear_135" /\ Runs(t)
    /\ \E now \in RequestTimes :
         LET item == req[t].item[1] IN
         req' = [req EXCEPT ![t].obj =
                    Some(Item(next_id, item.nombre, item.descripcion,
                              item.precio, item.disponible, now))]
    /\ Goto(t, "crear_144")
    /\ UNCHANGED <<regVars, histVars, gen>>

(* line 144: items_db.append(nuevo_item) *)
crear_144(t) ==
    /\ pc[t] = "crear_144" /\ Runs(t)
    /\ items_db' = Append(items_db, req[t].obj[1])
    /\ Goto(t, "crear_145")
    /\ UNCHANGED <<next_id, histVars, req, gen>>

(* lines 145-147: next_id += 1; return nuevo_item *)
crear_145(t) ==
    /\ pc[t] = "crear_145" /\ Runs(t)
    /\ next_id' = next_id + 1
    /\ Finish(t, "ok")
    /\ UNCHANGED <<items_db, histVars, gen>>

(* actualizar_item, lines 154-160: look the index up, 404 when absent *)
actualizar_154(t) ==
    /\ pc[t] = "actualizar_154" /\ Runs(t)
    /\ LET item_index == FindIndex(items_db, req[t].item_id) IN
       IF item_index = 0
       THEN Finish(t, "NotFound")
       ELSE /\ req' = [req EXCEPT ![t].item_index = item_index]
            /\ Goto(t, "actualizar_162")
    /\ UNCHANGED <<regVars, histVars, gen>>

(* lines 162-169: item_modificado = Item(..., items_db[item_index].fecha_creacion) *)
actualizar_162(t) ==
    /\ pc[t] = "actualizar_162" /\ Runs(t)
    /\ LET i == req[t].item_index
           item == req[t].item[1]
       IN IF i > Len(items_db)
          THEN Finish(t, "UnhandledError")
          ELSE /\ req' = [req EXCEPT ![t].obj =
                             Some(Item(req[t].item_id, item.nombre, item.descripcion,
                                       item.precio, item.disponible,
                                       items_db[i].fecha_creacion))]
               /\ Goto(t, "actualizar_171")
    /\ UNCHANGED <<regVars, histVars, gen>>

(* lines 171-173: items_db[item_index] = item_modificado; return *)
actualizar_171(t) ==
    /\ pc[t] = "actualizar_171" /\ Runs(t)
    /\ LET i == req[t].item_index IN
       IF i > Len(items_db)
       THEN /\ Finish(t, "UnhandledError")
            /\ UNCHANGED <<items_db, gen>>
       ELSE /\ items_db' = [items_db EXCEPT ![i] = req[t].obj[1]]
            /\ gen' = [gen EXCEPT ![req[t].item_id] = @ + 1]
            /\ Finish(t, "ok")
    /\ UNCHANGED <<next_id, histVars>>

(* actualizar_disponibilidad, lines 180-186: look the object up *)
patch_180(t) ==
    /\ pc[t] = "patch_180" /\ Runs(t)
    /\ LET i == FindIndex(items_db, req[t].item_id) IN
       IF i = 0
       THEN Finish(t, "NotFound")
       ELSE /\ req' = [req EXCEPT ![t].ref = <<req[t].item_id, gen[req[t].item_id]>>,
                                  ![t].obj = Some(items_db[i])]
            /\ Goto(t, "patch_188")
    /\ UNCHANGED <<regVars, histVars, gen>>

(* lines 188-190: item.disponible = disponible; return item. The write    *)
(* reaches the list only if the object is still in it.                    *)
patch_188(t) ==
    /\ pc[t] = "patch_188" /\ Runs(t)
    /\ LET i == FindIndex(items_db, req[t].ref[1])
           d == req[t].disponible[1]
       IN /\ items_db' = IF i # 0 /\ gen[req[t].ref[1]] = req[t].ref[2]
                         THEN [items_db EXCEPT ![i].disponible = d]
                         ELSE items_db
          /\ req' = [req EXCEPT ![t].obj = Some([req[t].obj[1] EXCEPT !.disponible = d]),
                                ![t].status = "ok"]
          /\ Goto(t, "done")
    /\ UNCHANGED <<next_id, histVars, gen>>

(* eliminar_item, lines 197-203: look the index up, 404 when absent *)
eliminar_197(t) ==
    /\ pc[t] = "eliminar_197" /\ Runs(t)
    /\ LET item_index == FindIndex(items_db, req[t].item_id) IN
       IF item_index = 0
       THEN Finish(t, "NotFound")
       ELSE /\ req' = [req EXCEPT ![t].item_index = item_index]
            /\ Goto(t, "eliminar_205")
    /\ UNCHANGED <<regVars, histVars, gen>>

(* lines 205-207: items_db.pop(item_index); return None *)
eliminar_205(t) ==
    /\ pc[t] = "eliminar_205" /\ Runs(t)
    /\ LET i == req[t].item_index IN
       IF i > Len(items_db)
       THEN /\ Finish(t, "UnhandledError")
            /\ UNCHANGED items_db
       ELSE /\ items_db' = Pop(items_db, i)
            /\ Finish(t, "ok")
    /\ UNCHANGED <<next_id, histVars, gen>>

NextLoop ==
    \/ \E t \in Tasks : Receive(t)
    \/ \E t \in Tasks : Dispatch(t)
    \/ \E t \in Tasks : crear_135(t)
    \/ \E t \in Tasks : crear_144(t)
    \/ \E t \in Tasks : crear_145(t)
    \/ \E t \in Tasks : actualizar_154(t)
    \/ \E t \in Tasks : actualizar_162(t)
    \/ \E t \in Tasks : actualizar_171(t)
    \/ \E t \in Tasks : patch_180(t)
    \/ \E t \in Tasks : patch_188(t)
    \/ \E t \in Tasks : eliminar_197(t)
    \/ \E t \in Tasks : eliminar_205(t)

SpecLoop == Init /\ [][NextLoop]_vars

----------------------------------------------------------------------------
(* Properties *)

(* C1: every successful create returns an id strictly greater than every  *)
(* id assigned before it (the seeds and the ids of deleted items          *)
(* included), the first create returns 3, and the id is new.              *)
C1_IdsStrictlyIncreasing ==
    [][ (last'.op = "create" /\ last'.status = "ok") =>
          /\ \A a \in assigned : last'.ret[1].id > a
          /\ \A i \in 1..Len(items_db) : items_db[i].id < last'.ret[1].id
          /\ last'.ret[1].id \notin deleted
          /\ (assigned = {1, 2} => last'.ret[1].id = 3) ]_vars

C1_Witness ==
    /\ last.op = "create" /\ last.status = "ok"
    /\ last.ret[1].id = 5
    /\ deleted = {1, 4}

(* C2: in every reachable state the ids in the list are pairwise          *)
(* distinct, every price is above 0, every name has 1 to 100 characters   *)
(* and every description is absent or has at most 500 characters.         *)
C2_RegistryInvariant ==
    /\ \A i \in 1..Len(items_db) : \A j \in 1..Len(items_db) :
          i # j => items_db[i].id # items_db[j].id
    /\ \A i \in 1..Len(items_db) :
          /\ items_db[i].precio > 0
          /\ items_db[i].nombre.n >= 1
          /\ items_db[i].nombre.n <= 100
          /\ (items_db[i].descripcion = <<>> \/ items_db[i].descripcion[1].n <= 500)

C2_Witness ==
    /\ Len(items_db) = 3
    /\ items_db[3].nombre.n = 100
    /\ items_db[3].descripcion # <<>> /\ items_db[3].descripcion[1].n = 500
    /\ items_db[1].descripcion = <<>>

(* C3: an operation that fails with ValidationError or NotFound changes   *)
(* neither the list nor the id counter.                                   *)
C3_FailureLeavesRegistry ==
    [][ (/\ last'.op \in {"create", "update", "patch", "delete"}
         /\ last'.status \in {"ValidationError", "NotFound"}) =>
          /\ items_db' = items_db
          /\ next_id' = next_id ]_vars

C3_Witness ==
    /\ last.op = "create" /\ last.status = "ValidationError"
    /\ last.raw[1].precio = 0
    /\ Len(items_db) = 1
    /\ next_id = 3

(* C4, as stated: once deleted an id stays out of the list, and get,      *)
(* update, patch and delete on it all fail with NotFound.                 *)
C4_DeletedAlwaysNotFound ==
    [][ /\ \A i \in 1..Len(items_db') : items_db'[i].id \notin deleted'
        /\ (/\ last'.op \in {"get", "update", "patch", "delete"}
            /\ last'.id \in deleted) => last'.status = "NotFound" ]_vars

(* C4, amended: once deleted an id stays out of the list; get, patch and  *)
(* delete on it fail with NotFound, and so does an update whose body is   *)
(* valid; an update whose body is invalid fails with ValidationError.     *)
C4_DeletedStaysAbsent ==
    [][ /\ \A i \in 1..Len(items_db') : items_db'[i].id \notin deleted'
        /\ (/\ last'.op \in {"get", "update", "patch", "delete"}
            /\ last'.id \in deleted) =>
              LET bad == /\ last'.op = "update"
                         /\ \/ last'.raw[1].precio <= 0
                            \/ last'.raw[1].nombre.n < 1
                            \/ last'.raw[1].nombre.n > 100
                            \/ /\ last'.raw[1].descripcion # <<>>
                               /\ last'.raw[1].descripcion[1].n > 500
              IN last'.status = IF bad THEN "ValidationError" ELSE "NotFound" ]_vars

C4_Witness ==
    /\ last.op = "update" /\ last.status = "NotFound"
    /\ last.id = 3
    /\ 3 \in deleted
    /\ next_id = 5

(* C5: a successful update keeps the item's id and fecha_creacion, sets   *)
(* nombre, descripcion, precio and disponible to the body's values (an    *)
(* absent descripcion clears it, an absent disponible is true), returns   *)
(* the stored item, and changes no other item, nor the length, the order  *)
(* or the counter.                                                        *)
C5_UpdateOverwrites ==
    [][ (last'.op = "update" /\ last'.status = "ok") =>
          \E i \in 1..Len(items_db) :
             /\ items_db[i].id = last'.id
             /\ Len(items_db') = Len(items_db)
             /\ next_id' = next_id
             /\ \A k \in 1..Len(items_db) : k # i => items_db'[k] = items_db[k]
             /\ items_db'[i].id = items_db[i].id
             /\ items_db'[i].fecha_creacion = items_db[i].fecha_creacion
             /\ items_db'[i].nombre = last'.raw[1].nombre
             /\ items_db'[i].descripcion = last'.raw[1].descripcion
             /\ items_db'[i].precio = last'.raw[1].precio
             /\ items_db'[i].disponible =
                   (last'.raw[1].disponible = <<>> \/ last'.raw[1].disponible = <<TRUE>>)
             /\ last'.ret = <<items_db'[i]>> ]_vars

C5_Witness ==
    /\ last.op = "update" /\ last.status = "ok"
    /\ last.id = 3
    /\ last.raw[1].descripcion = <<>>
    /\ Len(items_db) = 2
    /\ items_db[2].id = 3 /\ items_db[2].fecha_creacion = 1
    /\ items_db[2].descripcion = <<>>

(* C6: a successful patch changes only disponible of the item with that   *)
(* id and nothing else in the list or the counter, and a get of that id   *)
(* right after it returns the item with the requested value.              *)
C6_PatchOnlyAvailability ==
    [][ /\ (last'.op = "patch" /\ last'.status = "ok") =>
              \E i \in 1..Len(items_db) :
                 /\ items_db[i].id = last'.id
                 /\ items_db' = [items_db EXCEPT ![i].disponible = last'.arg[1]]
                 /\ next_id' = next_id
                 /\ last'.ret = <<items_db'[i]>>
        /\ (/\ last.op = "patch" /\ last.status = "ok"
            /\ last'.op = "get" /\ last'.id = last.id) =>
              /\ last'.status = "ok"
              /\ last'.ret[1].disponible = last.arg[1]
              /\ last'.ret = last.ret ]_vars

C6_Witness ==
    /\ last.op = "patch" /\ last.status = "ok"
    /\ last.id = 2 /\ last.arg = <<FALSE>>
    /\ Len(items_db) = 3
    /\ ~items_db[2].disponible /\ items_db[1].disponible

(* C7: a successful create appends one item at the end and advances the   *)
(* counter by one, leaving the items before it as they were; the item     *)
(* returned carries the assigned id and the body's fields (disponible     *)
(* true when absent), and a get of that id right after returns it.        *)
C7_CreateAppends ==
    [][ /\ (last'.op = "create" /\ last'.status = "ok") =>
              /\ Len(items_db') = Len(items_db) + 1
              /\ \A k \in 1..Len(items_db) : items_db'[k] = items_db[k]
              /\ next_id' = next_id + 1
              /\ last'.ret = <<items_db'[Len(items_db')]>>
              /\ last'.ret[1].id = next_id
              /\ last'.id = next_id
              /\ last'.ret[1].nombre = last'.raw[1].nombre
              /\ last'.ret[1].descripcion = last'.raw[1].descripcion
              /\ last'.ret[1].precio = last'.raw[1].precio
              /\ last'.ret[1].disponible =
                    (last'.raw[1].disponible = <<>> \/ last'.raw[1].disponible = <<TRUE>>)
        /\ (/\ last.op = "create" /\ last.status = "ok"
            /\ last'.op = "get" /\ last'.id = last.id) =>
              /\ last'.status = "ok"
              /\ last'.ret = last.ret ]_vars

C7_Witness ==
    /\ last.op = "create" /\ last.status = "ok"
    /\ last.raw[1].disponible = <<>>
    /\ Len(items_db) = 3
    /\ items_db[3].id = 3 /\ items_db[3].disponible

(* C8: list returns exactly the items that satisfy every filter given     *)
(* (bounds inclusive), each once and in stored order, and changes nothing.*)
C8_ListFilters ==
    [][ (last'.op = "list") =>
          LET f == last'.arg[1]
              ret == last'.ret
              Sat(it) == /\ (f.disponible # <<>> => it.disponible = f.disponible[1])
                         /\ (f.precio_min # <<>> => it.precio >= f.precio_min[1])
                         /\ (f.precio_max # <<>> => it.precio <= f.precio_max[1])
              idx == {i \in 1..Len(items_db) : Sat(items_db[i])}
              Nth(k) == CHOOSE i \in idx : Cardinality({j \in idx : j < i}) = k - 1
          IN /\ items_db' = items_db
             /\ next_id' = next_id
             /\ last'.status = "ok"
             /\ Len(ret) = Cardinality(idx)
             /\ \A k \in 1..Len(ret) : ret[k] = items_db[Nth(k)]
             /\ (f.disponible = <<>> /\ f.precio_min = <<>> /\ f.precio_max = <<>>)
                   => ret = items_db ]_vars

C8_Witness ==
    /\ last.op = "list"
    /\ last.arg[1] = [disponible |-> <<TRUE>>, precio_min |-> <<5000>>,
                      precio_max |-> <<120050>>]
    /\ Len(items_db) = 3
    /\ Len(last.ret) = 2
    /\ last.ret[1].precio = 120050 /\ last.ret[2].precio = 5000

(* C9: stats returns the number of items, the number of available items,  *)
(* their difference, and the smallest and largest price; on an empty list *)
(* it returns zeros; it changes nothing.                                  *)
C9_Stats ==
    [][ (last'.op = "stats") =>
          LET r == last'.ret[1]
              n == Len(items_db)
          IN /\ items_db' = items_db
             /\ next_id' = next_id
             /\ last'.status = "ok"
             /\ r.total_items = n
             /\ r.items_disponibles = Cardinality({i \in 1..n : items_db[i].disponible})
             /\ r.items_no_disponibles = r.total_items - r.items_disponibles
             /\ n > 0 =>
                  /\ \E i \in 1..n : items_db[i].precio = r.precio_minimo
                  /\ \A i \in 1..n : items_db[i].precio >= r.precio_minimo
                  /\ \E i \in 1..n : items_db[i].precio = r.precio_maximo
                  /\ \A i \in 1..n : items_db[i].precio <= r.precio_maximo
             /\ n = 0 =>
                  /\ r.total_items = 0
                  /\ r.precio_promedio = 0
                  /\ r.precio_minimo = 0
                  /\ r.precio_maximo = 0 ]_vars

C9_Witness ==
    /\ last.op = "stats"
    /\ items_db = <<>>
    /\ next_id = 4
    /\ last.ret[1].precio_minimo = 0

(* C10: no handler is ever part-way through its body while another task  *)
(* holds the loop or the loop is free; hence two creates never build      *)
(* items with the same id, an update or delete that has found its index   *)
(* still finds its item there, and none ends in an unhandled error.       *)
C10_HandlersAtomic ==
    /\ \A t \in Tasks : pc[t] \in BodyLabels => current = t
    /\ \A t1 \in Tasks : \A t2 \in Tasks :
          (/\ t1 # t2
           /\ req[t1].op = "create" /\ req[t2].op = "create"
           /\ req[t1].obj # <<>> /\ req[t2].obj # <<>>)
          => req[t1].obj[1].id # req[t2].obj[1].id
    /\ \A t \in Tasks :
          pc[t] \in {"actualizar_162", "actualizar_171", "eliminar_205"} =>
             /\ req[t].item_index <= Len(items_db)
             /\ items_db[req[t].item_index].id = req[t].item_id
    /\ \A t \in Tasks : req[t].status # "UnhandledError"
    /\ \A i \in 1..Len(items_db) : \A j \in 1..Len(items_db) :
          i # j => items_db[i].id # items_db[j].id

C10_Witness ==
    \E t1 \in Tasks : \E t2 \in Tasks :
       /\ pc[t1] = "crear_145"
       /\ pc[t2] = "pending" /\ req[t2].op = "create"
       /\ Len(items_db) = 3

====
